---- MODULE Spec2Model ----
(***************************************************************************)
(* TSDuck, ATSC Virtual Channel Table (ts::AbstractVCT): binary            *)
(* serialization into sections and deserialization from sections.          *)
(*                                                                         *)
(* Bytes are naturals 0..255, a buffer is a sequence of bytes addressed    *)
(* by a 0-based offset (offset k is element k+1).                          *)
(***************************************************************************)
EXTENDS Integers, Sequences, FiniteSets, TLC

(***************************************************************************)
(* Program constants.                                                      *)
(***************************************************************************)
\* Size of the payload buffer of serialize (uint8_t payload[...]).
MAX_PSI_LONG_SECTION_PAYLOAD_SIZE == 1012
\* Table ids of the two VCT variants.
TID_TVCT == 200
TID_CVCT == 201

(***************************************************************************)
(* Bounds of the model.                                                    *)
(***************************************************************************)
\* Largest number of channels of a table.
MaxChannels == 2
\* Largest number of descriptors of one channel.
MaxChanDescs == 4
\* Largest number of global descriptors of a table.
MaxGlobalDescs == 2
\* Largest limit given to the constructor of a message queue.
MaxLimit == 2
\* Largest number of calls of forceEnqueue on a message queue.
MaxForced == 2
\* Largest size at which producers still call enqueue on an unlimited queue.
MaxUnlimited == 3

(***************************************************************************)
(* Field codec: big-endian integers and bit operations.                    *)
(***************************************************************************)
\* The bit operations work on the values of their operands: x and y below
\* are the operands evaluated once.
RECURSIVE AndBits(_, _)
AndBits(a, b) ==
    IF a = 0 \/ b = 0 THEN 0
    ELSE (IF a % 2 = 1 /\ b % 2 = 1 THEN 1 ELSE 0) + 2 * AndBits(a \div 2, b \div 2)

BitAnd(a, b) == CHOOSE r \in {AndBits(x, y) : x \in {a}, y \in {b}} : TRUE

RECURSIVE OrBits(_, _)
OrBits(a, b) ==
    IF a = 0 THEN b
    ELSE IF b = 0 THEN a
    ELSE (IF a % 2 = 1 \/ b % 2 = 1 THEN 1 ELSE 0) + 2 * OrBits(a \div 2, b \div 2)

BitOr(a, b) == CHOOSE r \in {OrBits(x, y) : x \in {a}, y \in {b}} : TRUE

RECURSIVE Pow2(_)
Pow2(n) == IF n = 0 THEN 1 ELSE 2 * Pow2(n - 1)

Shl(a, n) == a * Pow2(n)
Shr(a, n) == a \div Pow2(n)

UInt8(v)  == <<v % 256>>
UInt16(v) == <<(v \div 256) % 256, v % 256>>
UInt24(v) == <<(v \div 65536) % 256, (v \div 256) % 256, v % 256>>
\* A 32-bit value is the pair of its 16-bit halves, high half first.
UInt32(v) == UInt16(v[1]) \o UInt16(v[2])

GetUInt8(b, off)  == b[off + 1]
GetUInt16(b, off) == b[off + 1] * 256 + b[off + 2]
GetUInt24(b, off) == b[off + 1] * 65536 + b[off + 2] * 256 + b[off + 3]
GetUInt32(b, off) == <<GetUInt16(b, off), GetUInt16(b, off + 2)>>

\* A byte of the stack buffer that no statement has written yet.
Unwritten == -1

\* Store the bytes bs at offset off of buffer b; the bytes of a gap below
\* off that nothing wrote stay unwritten.
Put(b, off, bs) ==
    (IF off <= Len(b) THEN SubSeq(b, 1, off)
     ELSE b \o [i \in 1..(off - Len(b)) |-> Unwritten])
    \o bs
    \o SubSeq(b, off + Len(bs) + 1, Len(b))

RECURSIVE Flatten(_)
Flatten(ss) == IF ss = <<>> THEN <<>> ELSE Head(ss) \o Flatten(Tail(ss))

(***************************************************************************)
(* Descriptors. A binary descriptor is its byte sequence: tag, length,     *)
(* then length payload bytes.                                              *)
(***************************************************************************)
Descriptor(tag, len, fill) == <<tag, len>> \o [i \in 1..len |-> fill]

RECURSIVE TotalSize(_)
TotalSize(ds) == IF ds = <<>> THEN 0 ELSE Len(Head(ds)) + TotalSize(Tail(ds))

\* DescriptorList::serialize(addr, size, start): the descriptors from index
\* start (0-based) are copied as long as the next one fits whole in size.
\* Returns the index of the first descriptor that was not copied.
RECURSIVE SerializeCount(_, _, _)
SerializeCount(ds, size, start) ==
    IF start < Len(ds) /\ Len(ds[start + 1]) <= size
    THEN SerializeCount(ds, size - Len(ds[start + 1]), start + 1)
    ELSE start

\* DescriptorList::lengthSerialize(addr, size, start, reserved_bits, length_bits):
\* a 16-bit length field, reserved bits above the length, then the descriptors
\* that fit in size - 2. Yields the bytes written and the next index.
lengthSerialize(ds, size, start, reserved_bits, length_bits) ==
    LET next   == SerializeCount(ds, size - 2, start)
        body   == Flatten(SubSeq(ds, start + 1, next))
        length == Len(body)
    IN  [bytes |-> UInt16(BitOr(length, Shl(reserved_bits, length_bits))) \o body,
         next  |-> next]

\* DescriptorList::add(data, size): the descriptors found in size bytes at
\* offset off, as long as a whole descriptor (2 + length bytes) remains.
RECURSIVE AddDescriptors(_, _, _)
AddDescriptors(b, off, size) ==
    IF size >= 2 /\ b[off + 2] + 2 <= size
    THEN <<SubSeq(b, off + 1, off + 2 + b[off + 2])>>
         \o AddDescriptors(b, off + 2 + b[off + 2], size - 2 - b[off + 2])
    ELSE <<>>

Min(a, b) == IF a < b THEN a ELSE b


(***************************************************************************)
(* Entry codec: the 32 fixed bytes of one channel.                         *)
(***************************************************************************)
\* The 24-bit value stored at offset 14 of a channel.
PackedChannelNumber(major, minor) ==
    BitOr(BitOr(61440, Shl(BitAnd(major, 1023), 10)), BitAnd(minor, 1023))

\* The flags byte with the two CVCT bits written for every table id.
FlagsByte_AnyVariant(ch, tid) ==
    BitOr(BitOr(BitOr(BitOr(BitOr(BitOr(
        Shl(ch.ETM_location, 6),
        IF ch.access_controlled THEN 32 ELSE 0),
        IF ch.hidden THEN 16 ELSE 0),
        Shl(BitAnd(ch.path_select, 1), 3)),
        IF ch.out_of_band THEN 4 ELSE 0),
        IF ch.hide_guide THEN 2 ELSE 0),
        1)

\* The flags byte stored at offset 26 of a channel.
FlagsByte(ch, tid) ==
    BitOr(BitOr(BitOr(BitOr(BitOr(BitOr(
        Shl(ch.ETM_location, 6),
        IF ch.access_controlled THEN 32 ELSE 0),
        IF ch.hidden THEN 16 ELSE 0),
        IF tid # TID_CVCT THEN 8 ELSE Shl(BitAnd(ch.path_select, 1), 3)),
        IF tid # TID_CVCT \/ ch.out_of_band THEN 4 ELSE 0),
        IF ch.hide_guide THEN 2 ELSE 0),
        1)

\* The short name, 7 UTF-16 code units padded with zeroes.
ShortNameBytes(name) ==
    Flatten([i \in 1..7 |-> UInt16(IF i <= Len(name) THEN name[i] ELSE 0)])

\* The 30 bytes of a channel that precede its descriptor list length.
ChannelFixedBytes(ch, tid) ==
    ShortNameBytes(ch.short_name)
    \o UInt24(PackedChannelNumber(ch.major_channel_number, ch.minor_channel_number))
    \o UInt8(ch.modulation_mode)
    \o UInt32(ch.carrier_frequency)
    \o UInt16(ch.channel_TSID)
    \o UInt16(ch.program_number)
    \o UInt8(FlagsByte(ch, tid))
    \o UInt8(BitOr(192, ch.service_type))
    \o UInt16(ch.source_id)

\* The short name read back: the code units up to the first zero.
RECURSIVE ReadShortName(_, _, _)
ReadShortName(b, off, i) ==
    IF i < 7 /\ GetUInt16(b, off + 2 * i) # 0
    THEN <<GetUInt16(b, off + 2 * i)>> \o ReadShortName(b, off, i + 1)
    ELSE <<>>

UnpackMajor(num) == BitAnd(Shr(num, 10), 1023)
UnpackMinor(num) == BitAnd(num, 1023)

\* The descriptor list length that deserialize takes from a 16-bit field.
InfoLength(field) == BitAnd(field, 4095)

\* The fields of the channel whose 32 bytes start at offset off.
ReadChannel(b, off, tid) ==
    LET num   == GetUInt24(b, off + 14)
        flags == GetUInt8(b, off + 26)
    IN  [short_name           |-> ReadShortName(b, off, 0),
         major_channel_number |-> UnpackMajor(num),
         minor_channel_number |-> UnpackMinor(num),
         modulation_mode      |-> GetUInt8(b, off + 17),
         carrier_frequency    |-> GetUInt32(b, off + 18),
         channel_TSID         |-> GetUInt16(b, off + 22),
         program_number       |-> GetUInt16(b, off + 24),
         ETM_location         |-> BitAnd(Shr(flags, 6), 3),
         access_controlled    |-> BitAnd(flags, 32) # 0,
         hidden               |-> BitAnd(flags, 16) # 0,
         path_select          |-> IF tid = TID_CVCT THEN BitAnd(Shr(flags, 3), 1) ELSE 0,
         out_of_band          |-> IF tid = TID_CVCT THEN BitAnd(flags, 4) # 0 ELSE FALSE,
         hide_guide           |-> BitAnd(flags, 2) # 0,
         service_type         |-> BitAnd(GetUInt8(b, off + 27), 63),
         source_id            |-> GetUInt16(b, off + 28),
         descs                |-> <<>>]

\* The channel loop of deserialize on one section payload: num channels are
\* still announced, remain bytes are left at offset off.
RECURSIVE ChannelLoop(_, _, _, _, _)
ChannelLoop(b, off, rem, num, tid) ==
    IF num > 0 /\ rem >= 32
    THEN LET info == Min(InfoLength(GetUInt16(b, off + 30)), rem - 32)
             ch   == [ReadChannel(b, off, tid) EXCEPT
                         !.descs = AddDescriptors(b, off + 32, info)]
             rest == ChannelLoop(b, off + 32 + info, rem - 32 - info, num - 1, tid)
         IN  [rest EXCEPT !.chans = <<ch>> \o @]
    ELSE [chans |-> <<>>, off |-> off, rem |-> rem, num |-> num]


(***************************************************************************)
(* Sections and binary tables.                                             *)
(***************************************************************************)
\* Section(tid, is_private_section, tid_ext, version, is_current,
\*         section_number, last_section_number, payload, payload_size)
Section(tid, private, tid_ext, vers, current, number, last, bytes, size) ==
    [table_id            |-> tid,
     is_private_section  |-> private,
     tid_ext             |-> tid_ext,
     version             |-> vers,
     is_current          |-> current,
     section_number      |-> number,
     last_section_number |-> last,
     payload             |-> SubSeq(bytes, 1, size)]

\* BinaryTable::addSection(section): the section is stored at the index of
\* its section number; when it announces a higher last section number than
\* the table has, the table grows and every section of the table takes the
\* new last section number.
BinaryTableAddSection(t, sect) ==
    LET grown == [i \in 1..Len(t) |->
                    IF t[i].last_section_number < sect.last_section_number
                    THEN [t[i] EXCEPT !.last_section_number = sect.last_section_number]
                    ELSE t[i]]
    IN  Append(grown, sect)

\* BinaryTable::isValid(): the table has sections, all of one table.
BinaryTableIsValid(t) ==
    /\ Len(t) > 0
    /\ \A i \in 1..Len(t) : t[i].table_id = t[1].table_id

\* BinaryTable::tableId()
BinaryTableId(t) == IF Len(t) > 0 THEN t[1].table_id ELSE 255

(***************************************************************************)
(* The state: one VCT object, the binary table it is serialized into and   *)
(* deserialized from, and the local variables of both methods.             *)
(***************************************************************************)
VARIABLES
    table_id,             \* _table_id of the object
    is_valid,             \* _is_valid
    version,
    is_current,
    protocol_version,
    transport_stream_id,
    channels,             \* list of channels, in order
    descs,                \* global descriptor list
    table,                \* the BinaryTable: its sections in stored order
    payload,              \* serialize: the payload buffer
    section_number,       \* serialize
    data,                 \* serialize: offset of data in payload
    remain,               \* serialize
    channel_index,        \* serialize
    next_desc,            \* serialize
    num_channels,         \* serialize: channels kept in the current section
    si,                   \* deserialize: index of the current section
    pc,                   \* position in serialize / deserialize
    orig,                 \* the content of the object when serialize was called
    deferred,             \* index of the channel rolled back last, -1 if none
    intact,               \* the binary table is as serialize built it
    codec,                \* field codec exercised alone: input, bytes, output
    ac3,                  \* an AC3Descriptor object
    other,                \* the AC3Descriptor object given to merge
    ecm,                  \* an ECMRepetitionRateDescriptor object
    bbp,                  \* serialize of a descriptor: the byte block built
    desc,                 \* the binary Descriptor written or read
    xml,                  \* the XML element built or parsed
    before,               \* the object as it was before the operation
    dpc,                  \* position in the operations on descriptors and XML
    maxMessages,          \* MessageQueue::_maxMessages, 0 means unlimited
    queue,                \* MessageQueue::_queue, oldest message first
    mutex,                \* MessageQueue::_mutex: the thread holding it, 0 if free
    thread,               \* each thread's call on the queue and its position
    forced                \* number of calls of forceEnqueue so far

\* The descriptor objects and what they are converted to and from.
objs == <<ac3, other, ecm, bbp, desc, xml, before, dpc>>

\* The message queue and the threads using it.
mq == <<maxMessages, queue, mutex, thread, forced>>

entity == <<table_id, is_valid, version, is_current, protocol_version,
            transport_stream_id, channels, descs>>
locals == <<payload, section_number, data, remain, channel_index, next_desc,
            num_channels>>
vars == <<table_id, is_valid, version, is_current, protocol_version,
          transport_stream_id, channels, descs, table, payload, section_number,
          data, remain, channel_index, next_desc, num_channels, si, pc, orig,
          deferred, intact, codec, objs, mq>>

(***************************************************************************)
(* Binary descriptors and the descriptor objects as constructed.           *)
(***************************************************************************)
\* Descriptor tags.
DID_AC3 == 106
DID_ECM_REPETITION_RATE == 120

\* A binary descriptor that holds no data: Descriptor::isValid() is false.
InvalidDescriptor == [valid |-> FALSE, bytes |-> <<>>]

\* Descriptor(bbp, SHARE): the block is taken when it is a tag, a length
\* byte and as many payload bytes as the length byte says.
DescriptorFromBlock(block) ==
    IF Len(block) >= 2 /\ Len(block) <= 257 /\ block[2] = Len(block) - 2
    THEN [valid |-> TRUE, bytes |-> block]
    ELSE InvalidDescriptor

DescIsValid(d) == d.valid
DescTag(d) == IF d.valid THEN d.bytes[1] ELSE 0
DescPayloadSize(d) == IF d.valid THEN Len(d.bytes) - 2 ELSE 0
DescPayload(d) == IF d.valid THEN SubSeq(d.bytes, 3, Len(d.bytes)) ELSE <<>>

\* Variable<uint8_t>: unset is the empty sequence, set to v is <<v>>.
Unset == <<>>

\* AC3Descriptor()
NewAC3Descriptor ==
    [is_valid        |-> TRUE,
     component_type  |-> Unset,
     bsid            |-> Unset,
     mainid          |-> Unset,
     asvc            |-> Unset,
     additional_info |-> <<>>]

\* ECMRepetitionRateDescriptor()
NewECMRepetitionRateDescriptor ==
    [is_valid            |-> TRUE,
     CA_system_id        |-> 0,
     ECM_repetition_rate |-> 0,
     private_data        |-> <<>>]

\* The threads sharing one message queue: two producers and one consumer.
Producers == {1, 2}
Consumers == {3}
Threads == Producers \cup Consumers

\* A thread that is not inside a call on the queue.
Outside == [op |-> "none", at |-> "out", timeout |-> "none", result |-> Unset]

\* MessageQueue(maxMessages)
NewMessageQueue(max) ==
    /\ maxMessages = max
    /\ queue = <<>>
    /\ mutex = 0
    /\ thread = [t \in Threads |-> Outside]
    /\ forced = 0

InitObjs ==
    /\ ac3 = NewAC3Descriptor
    /\ other = NewAC3Descriptor
    /\ ecm = NewECMRepetitionRateDescriptor
    /\ bbp = <<>>
    /\ desc = InvalidDescriptor
    /\ xml = <<>>
    /\ before = <<>>
    /\ dpc = "idle"

(***************************************************************************)
(* The tables the application builds.                                      *)
(***************************************************************************)
\* The i-th channel of a table, carrying k descriptors of maximal size.
\* Channel 1 has small field values, channel 2 the largest value of every
\* field, the following ones values in between.
SampleChannel(i, k) ==
    [short_name           |-> IF i = 1 THEN <<65>>
                              ELSE IF i = 2 THEN <<75, 233, 8364, 65535, 1, 256, 90>>
                              ELSE <<66, 48 + i>>,
     major_channel_number |-> IF i = 1 THEN 1 ELSE IF i = 2 THEN 1023 ELSE 512 + i,
     minor_channel_number |-> IF i = 1 THEN 2 ELSE IF i = 2 THEN 1023 ELSE i,
     modulation_mode      |-> IF i = 2 THEN 255 ELSE 4,
     carrier_frequency    |-> IF i = 2 THEN <<65535, 65535>> ELSE <<0, i>>,
     channel_TSID         |-> IF i = 2 THEN 65535 ELSE i,
     program_number       |-> IF i = 2 THEN 65535 ELSE 16 * i,
     ETM_location         |-> IF i = 2 THEN 3 ELSE 0,
     access_controlled    |-> i = 2,
     hidden               |-> i = 2,
     hide_guide           |-> i = 2,
     service_type         |-> IF i = 2 THEN 63 ELSE 2,
     source_id            |-> IF i = 2 THEN 65535 ELSE 256 + i,
     path_select          |-> IF i = 2 THEN 1 ELSE 0,
     out_of_band          |-> i = 2,
     descs                |-> [j \in 1..k |-> Descriptor(160 + j, 255, 16 * i + j)]]

\* The global descriptor lists: every sequence, of up to MaxGlobalDescs
\* descriptors, of payload sizes 1 and 255.
GlobalLists ==
    UNION { { [j \in 1..n |-> Descriptor(128 + j, f[j], 170 + j)] :
                f \in [1..n -> {1, 255}] } : n \in 0..MaxGlobalDescs }

Init ==
    /\ table_id \in {TID_TVCT, TID_CVCT}
    /\ is_valid \in BOOLEAN
    /\ version = 5
    /\ is_current = TRUE
    /\ protocol_version = 1
    /\ transport_stream_id = 4660
    /\ \E n \in 0..MaxChannels, k \in 0..MaxChanDescs :
          channels = [i \in 1..n |-> SampleChannel(i, k)]
    /\ descs \in GlobalLists
    /\ table = <<>>
    /\ payload = <<>>
    /\ section_number = 0
    /\ data = 0
    /\ remain = 0
    /\ channel_index = 0
    /\ next_desc = 0
    /\ num_channels = 0
    /\ si = 0
    /\ pc = "idle"
    /\ orig = [channels |-> <<>>, descs |-> <<>>]
    /\ deferred = -1
    /\ intact = TRUE
    /\ codec = [op |-> "none"]
    /\ InitObjs
    /\ NewMessageQueue(0)


(***************************************************************************)
(* AbstractVCT::serialize                                                  *)
(***************************************************************************)
\* What the object holds, kept to compare with what comes back.
Content ==
    [protocol_version    |-> protocol_version,
     transport_stream_id |-> transport_stream_id,
     version             |-> version,
     is_current          |-> is_current,
     channels            |-> channels,
     descs               |-> descs]

\* MoreSections without the global descriptors.
MoreSections_ForgetGlobals == section_number = 0 \/ channel_index < Len(channels)

\* The condition of the loop on the creation of sections.
MoreSections ==
    section_number = 0 \/ channel_index < Len(channels) \/ next_desc < Len(descs)

\* The condition of the loop on channel definitions.
MoreChannels == channel_index < Len(channels) /\ remain >= 34

\* KeepChannel keeping every channel attempted, complete or not.
KeepChannel_Always(num, next_index, count) == TRUE

\* KeepChannel without the rule of the first channel of a section.
KeepChannel_OnlyWhenComplete(num, next_index, count) == next_index >= count

\* Whether the attempted channel stays in the section: it is the first one
\* of the section, or all its descriptors were serialized.
KeepChannel(num, next_index, count) == num = 0 \/ next_index >= count

\* The number of channels of the section, stored once the channel loop ended.
StoreNumChannels(buf, num) == Put(buf, 1, UInt16(num))

\* GlobalDescriptors taking a whole payload as the room that is left.
GlobalDescriptors_WholePayload(ds, rem, next) ==
    lengthSerialize(ds, MAX_PSI_LONG_SECTION_PAYLOAD_SIZE, next, 63, 10)

\* GlobalDescriptors storing no descriptor as long as a channel is pending.
GlobalDescriptors_AfterLastChannel(ds, rem, next) ==
    lengthSerialize(ds, IF channel_index < Len(channels) THEN 2 ELSE rem, next, 63, 10)

\* The global descriptors stored in a section: all or some of them, from
\* index next on, in the rem bytes the channels left.
GlobalDescriptors(ds, rem, next) == lengthSerialize(ds, rem, next, 63, 10)

\* The descriptors of a channel stored all together or not at all.
ChannelDescriptors_AllOrNone(ds, rem) ==
    LET ls == lengthSerialize(ds, rem, 0, 63, 10)
    IN  IF ls.next = Len(ds) THEN ls ELSE lengthSerialize(<<>>, rem, 0, 63, 10)

\* The descriptors of a channel tried from the second one on.
ChannelDescriptors_FromSecond(ds, rem) == lengthSerialize(ds, rem, 1, 63, 10)

\* The descriptors of a channel: the list is tried from its first descriptor
\* in the rem bytes left (the caller keeps 2 bytes back for the end of the
\* section).
ChannelDescriptors(ds, rem) == lengthSerialize(ds, rem, 0, 63, 10)

\* addSection numbering every section 0.
addSection_NumberZero(t, number, buf, size) ==
    BinaryTableAddSection(t,
        Section(table_id, TRUE, transport_stream_id, version, is_current,
                0, 0, buf, size))

\* AbstractVCT::addSection: the section added to the binary table.
addSection(t, number, buf, size) ==
    BinaryTableAddSection(t,
        Section(table_id, TRUE, transport_stream_id, version, is_current,
                number % 256, number % 256, buf, size))

\* serialize is called: the binary table is cleared, an invalid object
\* leaves it empty.
SerializeCall ==
    /\ pc = "idle"
    /\ table' = <<>>
    /\ orig' = Content
    /\ IF ~is_valid
       THEN /\ pc' = "serialized"
            /\ UNCHANGED locals
       ELSE /\ pc' = "loop"
            /\ section_number' = 0
            /\ data' = 0
            /\ remain' = MAX_PSI_LONG_SECTION_PAYLOAD_SIZE
            /\ channel_index' = 0
            /\ next_desc' = 0
            /\ UNCHANGED <<payload, num_channels>>
    /\ UNCHANGED <<entity, si, deferred, intact, codec, objs, mq>>

\* A section is started: protocol_version, and room for the channel count.
SectionBegin ==
    /\ pc = "loop"
    /\ MoreSections
    /\ payload' = Put(payload, data, UInt8(protocol_version))
    /\ num_channels' = 0
    /\ data' = data + 2
    /\ remain' = remain - 2
    /\ pc' = "chan"
    /\ UNCHANGED <<entity, table, section_number, channel_index, next_desc, si,
                   orig, deferred, intact, codec, objs, mq>>

\* One turn of the loop on channel definitions: the channel is written with
\* the descriptors that fit, then kept or dropped for this section.
ChannelAttempt ==
    /\ pc = "chan"
    /\ MoreChannels
    /\ LET ch      == channels[channel_index + 1]
           ls      == ChannelDescriptors(ch.descs, remain - 32)
           written == Put(payload, data, ChannelFixedBytes(ch, table_id) \o ls.bytes)
       IN  /\ payload' = written
           /\ IF KeepChannel(num_channels, ls.next, Len(ch.descs))
              THEN /\ data' = data + 30 + Len(ls.bytes)
                   /\ remain' = remain - 32 - Len(ls.bytes) + 2
                   /\ num_channels' = (num_channels + 1) % 256
                   /\ channel_index' = channel_index + 1
                   /\ deferred' = -1
                   /\ pc' = "chan"
              ELSE /\ data' = data
                   /\ remain' = remain
                   /\ deferred' = channel_index
                   /\ pc' = "close"
                   /\ UNCHANGED <<num_channels, channel_index>>
    /\ UNCHANGED <<entity, table, section_number, next_desc, si, orig, intact, codec, objs, mq>>

\* The loop on channel definitions ends: no channel left, or no room.
ChannelLoopEnd ==
    /\ pc = "chan"
    /\ ~MoreChannels
    /\ pc' = "close"
    /\ UNCHANGED <<entity, table, locals, si, orig, deferred, intact, codec, objs, mq>>

\* The section is closed: channel count, global descriptors, addSection.
SectionEnd ==
    /\ pc = "close"
    /\ LET counted == StoreNumChannels(payload, num_channels)
           ls      == GlobalDescriptors(descs, remain, next_desc)
           written == Put(counted, data, ls.bytes)
           size    == data + Len(ls.bytes)
       IN  /\ payload' = written
           /\ next_desc' = ls.next
           /\ table' = addSection(table, section_number, written, size)
           /\ remain' = remain - Len(ls.bytes) + size
           /\ data' = 0
           /\ section_number' = section_number + 1
    /\ pc' = "loop"
    /\ UNCHANGED <<entity, channel_index, num_channels, si, orig, deferred, intact, codec, objs, mq>>

\* serialize returns.
SerializeReturn ==
    /\ pc = "loop"
    /\ ~MoreSections
    /\ pc' = "serialized"
    /\ UNCHANGED <<entity, table, locals, si, orig, deferred, intact, codec, objs, mq>>


(***************************************************************************)
(* The binary table on its way to deserialize. It is the table serialize   *)
(* built, or a table that differs from it the way received tables do:      *)
(* another table id, another announced channel count, a shorter payload.   *)
(***************************************************************************)
\* Payload sizes a section is cut to.
TruncatedSizes == {0, 1, 3, 33}

\* The table is one of the other VCT variant.
ReceiveOtherTable ==
    /\ pc = "serialized"
    /\ Len(table) > 0
    /\ table' = [i \in 1..Len(table) |->
                    [table[i] EXCEPT !.table_id =
                        IF @ = TID_CVCT THEN TID_TVCT ELSE TID_CVCT]]
    /\ pc' = "wire"
    /\ intact' = FALSE
    /\ UNCHANGED <<entity, locals, si, orig, deferred, codec, objs, mq>>

\* A section announces n channels.
ReceiveChannelCount ==
    /\ pc = "serialized"
    /\ \E i \in 1..Len(table), n \in 1..MaxChannels :
          table' = [table EXCEPT ![i].payload = Put(@, 1, UInt8(n))]
    /\ pc' = "patched"
    /\ intact' = FALSE
    /\ UNCHANGED <<entity, locals, si, orig, deferred, codec, objs, mq>>

\* A section arrives with a shorter payload.
ReceiveTruncated ==
    /\ pc \in {"serialized", "patched"}
    /\ \E i \in 1..Len(table), n \in TruncatedSizes :
          /\ n < Len(table[i].payload)
          /\ table' = [table EXCEPT ![i].payload = SubSeq(@, 1, n)]
    /\ pc' = "wire"
    /\ intact' = FALSE
    /\ UNCHANGED <<entity, locals, si, orig, deferred, codec, objs, mq>>

\* The values one section carries when the sections differ.
OtherVersion == 9
OtherTransportStreamId == 22136
OtherProtocolVersion == 7

\* The sections arrive with different shared fields, or stored in another
\* order than the one of their section numbers.
ReceiveMixedSections ==
    /\ pc = "serialized"
    /\ \E k \in 1..Len(table), swap \in BOOLEAN :
          LET n       == Len(table)
              altered == [table EXCEPT ![k] =
                            [@ EXCEPT !.version = OtherVersion,
                                      !.is_current = FALSE,
                                      !.tid_ext = OtherTransportStreamId,
                                      !.payload = Put(@, 0, UInt8(OtherProtocolVersion))]]
          IN  /\ swap => n >= 2
              /\ table' = IF swap THEN [i \in 1..n |-> altered[n + 1 - i]]
                                  ELSE altered
    /\ pc' = "wire"
    /\ intact' = FALSE
    /\ UNCHANGED <<entity, locals, si, orig, deferred, codec, objs, mq>>

(***************************************************************************)
(* AbstractVCT::deserialize                                                *)
(***************************************************************************)
\* The section of number i, whatever the index it is stored at.
SectionAt_InNumberOrder(t, i) ==
    IF \E j \in 1..Len(t) : t[j].section_number = i
    THEN t[CHOOSE j \in 1..Len(t) : t[j].section_number = i]
    ELSE t[i + 1]

\* table.sectionAt(si): the section stored at index si.
SectionAt(t, i) == t[i + 1]

\* TableAccepted without the check of the table id.
TableAccepted_AnyTableId(t) == BinaryTableIsValid(t)

\* The binary table is one deserialize works on.
TableAccepted(t) == BinaryTableIsValid(t) /\ BinaryTableId(t) = table_id

\* A payload too short for the fixed fields of a section.
TooShort(size) == size < 2

\* Truncated without the check of the announced channels.
Truncated_OnlyLength(num, rem) == rem < 2

\* After the channel loop: channels are announced that were not read, or
\* the length of the global descriptor list is not there.
Truncated(num, rem) == num > 0 \/ rem < 2

\* deserialize is called: the content is cleared, the table is checked.
DeserializeCall ==
    /\ pc \in {"serialized", "patched", "wire"}
    /\ is_valid' = FALSE
    /\ protocol_version' = 0
    /\ transport_stream_id' = 0
    /\ descs' = <<>>
    /\ channels' = <<>>
    /\ si' = 0
    /\ pc' = IF ~TableAccepted(table) THEN "rejected" ELSE "sections"
    /\ UNCHANGED <<table_id, version, is_current, table, locals, orig, deferred, intact, codec, objs, mq>>

\* One turn of the loop on all sections.
DeserializeSection ==
    /\ pc = "sections"
    /\ si < Len(table)
    /\ LET sect == SectionAt(table, si)
           b    == sect.payload
           loop == ChannelLoop(b, 2, Len(b) - 2, b[2], table_id)
           info == Min(InfoLength(GetUInt16(b, loop.off)), loop.rem - 2)
       IN  /\ version' = sect.version
           /\ is_current' = sect.is_current
           /\ transport_stream_id' = sect.tid_ext
           /\ IF TooShort(Len(b))
              THEN /\ pc' = "aborted"
                   /\ UNCHANGED <<protocol_version, channels, descs, si>>
              ELSE /\ protocol_version' = b[1]
                   /\ channels' = channels \o loop.chans
                   /\ IF Truncated(loop.num, loop.rem)
                      THEN /\ pc' = "aborted"
                           /\ UNCHANGED <<descs, si>>
                      ELSE /\ descs' = descs \o AddDescriptors(b, loop.off + 2, info)
                           /\ si' = si + 1
                           /\ pc' = "sections"
    /\ UNCHANGED <<table_id, is_valid, table, locals, orig, deferred, intact, codec, objs, mq>>

\* All sections were processed.
DeserializeEnd ==
    /\ pc = "sections"
    /\ si >= Len(table)
    /\ is_valid' = TRUE
    /\ pc' = "done"
    /\ UNCHANGED <<table_id, version, is_current, protocol_version,
                   transport_stream_id, channels, descs, table, locals, si, orig,
                   deferred, intact, codec, objs, mq>>

Next ==
    \/ SerializeCall
    \/ SectionBegin
    \/ ChannelAttempt
    \/ ChannelLoopEnd
    \/ SectionEnd
    \/ SerializeReturn
    \/ ReceiveOtherTable
    \/ ReceiveChannelCount
    \/ ReceiveTruncated
    \/ ReceiveMixedSections
    \/ DeserializeCall
    \/ DeserializeSection
    \/ DeserializeEnd

Spec == Init /\ [][Next]_vars

\* serialize is a sequential method: once called it runs until it returns.
SerializeStep ==
    \/ SerializeCall
    \/ SectionBegin
    \/ ChannelAttempt
    \/ ChannelLoopEnd
    \/ SectionEnd
    \/ SerializeReturn

LiveSpec == Init /\ [][Next]_vars /\ WF_vars(SerializeStep)


(***************************************************************************)
(* The field codec alone: the two packed fields of a channel are written   *)
(* the way serialize writes them and read the way deserialize reads them,  *)
(* for every value of their wire range. The VCT object stays as            *)
(* constructed.                                                            *)
(***************************************************************************)
\* A descriptor list of n bytes in all (n = 0, or n >= 2): descriptors of
\* the largest size, then a smaller one.
ListOfSize(n) ==
    LET full == IF n % 257 = 1 THEN (n \div 257) - 1 ELSE n \div 257
        last == n - 257 * full
    IN  [j \in 1..full |-> Descriptor(160, 255, j)]
        \o (IF last = 0 THEN <<>>
            ELSE IF last <= 257 THEN <<Descriptor(161, last - 2, 0)>>
            ELSE <<Descriptor(161, 254, 0), Descriptor(162, last - 258, 0)>>)

\* The values of minor_channel_number tried with every major_channel_number.
MinorSamples == {0, 1, 341, 682, 1023}

InitCodec ==
    /\ table_id = TID_TVCT
    /\ is_valid = TRUE
    /\ version = 0
    /\ is_current = TRUE
    /\ protocol_version = 0
    /\ transport_stream_id = 0
    /\ channels = <<>>
    /\ descs = <<>>
    /\ table = <<>>
    /\ payload = <<>>
    /\ section_number = 0
    /\ data = 0
    /\ remain = 0
    /\ channel_index = 0
    /\ next_desc = 0
    /\ num_channels = 0
    /\ si = 0
    /\ pc = "codec"
    /\ orig = [channels |-> <<>>, descs |-> <<>>]
    /\ deferred = -1
    /\ intact = TRUE
    /\ codec = [op |-> "idle"]
    /\ InitObjs
    /\ NewMessageQueue(0)

vct == <<table_id, is_valid, version, is_current, protocol_version,
         transport_stream_id, channels, descs, table, payload, section_number,
         data, remain, channel_index, next_desc, num_channels, si, pc, orig,
         deferred, intact>>

\* serialize: the 24-bit field at offset 14 of a channel.
PutChannelNumber ==
    /\ codec.op = "idle"
    /\ \E major \in 0..1023, minor \in MinorSamples :
          codec' = [op    |-> "number",
                    major |-> major,
                    minor |-> minor,
                    bytes |-> UInt24(PackedChannelNumber(major, minor))]
    /\ UNCHANGED <<vct, objs, mq>>

\* deserialize: the two numbers taken from that field.
GetChannelNumber ==
    /\ codec.op = "number"
    /\ codec' = [op         |-> "number_read",
                 major      |-> codec.major,
                 minor      |-> codec.minor,
                 bytes      |-> codec.bytes,
                 read_major |-> UnpackMajor(GetUInt24(codec.bytes, 0)),
                 read_minor |-> UnpackMinor(GetUInt24(codec.bytes, 0))]
    /\ UNCHANGED <<vct, objs, mq>>

\* serialize: the length field of a descriptor list of a channel, the list
\* fitting whole.
PutListLength ==
    /\ codec.op = "idle"
    /\ \E n \in {0} \cup 2..1023 :
          codec' = [op     |-> "length",
                    length |-> n,
                    bytes  |-> SubSeq(ChannelDescriptors(ListOfSize(n), n + 2).bytes, 1, 2)]
    /\ UNCHANGED <<vct, objs, mq>>

\* deserialize: the length taken from that field.
GetListLength ==
    /\ codec.op = "length"
    /\ codec' = [op     |-> "length_read",
                 length |-> codec.length,
                 bytes  |-> codec.bytes,
                 read   |-> InfoLength(GetUInt16(codec.bytes, 0))]
    /\ UNCHANGED <<vct, objs, mq>>

\* serialize: the 30 fixed bytes of a channel of a table of id tid, for
\* every value of the fields of its flags byte.
PutChannelFlags ==
    /\ codec.op = "idle"
    /\ \E tid \in {TID_TVCT, TID_CVCT}, etm \in 0..3, ps \in 0..1,
          ac \in BOOLEAN, hid \in BOOLEAN, oob \in BOOLEAN, hg \in BOOLEAN :
          LET ch == [SampleChannel(1, 0) EXCEPT
                        !.ETM_location = etm, !.access_controlled = ac,
                        !.hidden = hid, !.path_select = ps,
                        !.out_of_band = oob, !.hide_guide = hg]
          IN  codec' = [op      |-> "flags",
                        tid     |-> tid,
                        written |-> <<ch>>,
                        bytes   |-> ChannelFixedBytes(ch, tid)]
    /\ UNCHANGED <<vct, objs, mq>>

\* A channel received from elsewhere: any flags byte.
ReceiveChannelFlags ==
    /\ codec.op = "idle"
    /\ \E tid \in {TID_TVCT, TID_CVCT}, flags \in 0..255 :
          codec' = [op      |-> "flags",
                    tid     |-> tid,
                    written |-> <<>>,
                    bytes   |-> Put(ChannelFixedBytes(SampleChannel(1, 0), tid),
                                    26, UInt8(flags))]
    /\ UNCHANGED <<vct, objs, mq>>

\* deserialize: the fields of the channel.
GetChannelFlags ==
    /\ codec.op = "flags"
    /\ codec' = [op      |-> "flags_read",
                 tid     |-> codec.tid,
                 written |-> codec.written,
                 bytes   |-> codec.bytes,
                 read    |-> ReadChannel(codec.bytes, 0, codec.tid)]
    /\ UNCHANGED <<vct, objs, mq>>

NextCodec ==
    \/ PutChannelNumber
    \/ GetChannelNumber
    \/ PutListLength
    \/ GetListLength
    \/ PutChannelFlags
    \/ ReceiveChannelFlags
    \/ GetChannelFlags

SpecCodec == InitCodec /\ [][NextCodec]_vars

(***************************************************************************)
(* AC3Descriptor: serialize, deserialize, merge.                           *)
(***************************************************************************)
\* The presence bitmask without the bit of asvc.
AC3Flags_NoAsvc(d) ==
    BitOr(BitOr(IF d.component_type # Unset THEN 128 ELSE 0,
                IF d.bsid # Unset THEN 64 ELSE 0),
          IF d.mainid # Unset THEN 32 ELSE 0)

\* The presence bitmask, first byte of the payload.
AC3Flags(d) ==
    BitOr(BitOr(BitOr(IF d.component_type # Unset THEN 128 ELSE 0,
                      IF d.bsid # Unset THEN 64 ELSE 0),
                IF d.mainid # Unset THEN 32 ELSE 0),
          IF d.asvc # Unset THEN 16 ELSE 0)

\* The byte block that serialize builds: two bytes, the bitmask, the fields
\* that are set, additional_info; then the tag and the length byte, which
\* is the size of what follows as a uint8_t.
AC3Block(d, tag) ==
    LET block == <<0, 0>> \o UInt8(AC3Flags(d)) \o d.component_type \o d.bsid
                 \o d.mainid \o d.asvc \o d.additional_info
    IN  Put(Put(block, 0, <<tag>>), 1, UInt8(Len(block) - 2))

\* deserialize: the field of this bit is read.
AC3Present(flags, bit, size) == BitAnd(flags, bit) # 0 /\ size >= 1

\* The object after deserialize of the binary descriptor d.
AC3Read(obj, d, tag) ==
    LET valid == DescIsValid(d) /\ DescTag(d) = tag /\ DescPayloadSize(d) >= 1
        bytes  == DescPayload(d)
        At(i) == IF i <= Len(bytes) THEN bytes[i] ELSE 0
        flags == bytes[1]
        s0    == Len(bytes) - 1
        has1  == AC3Present(flags, 128, s0)
        s1    == IF has1 THEN s0 - 1 ELSE s0
        has2  == AC3Present(flags, 64, s1)
        s2    == IF has2 THEN s1 - 1 ELSE s1
        has3  == AC3Present(flags, 32, s2)
        s3    == IF has3 THEN s2 - 1 ELSE s2
        has4  == AC3Present(flags, 16, s3)
        s4    == IF has4 THEN s3 - 1 ELSE s3
    IN  IF ~valid
        THEN [NewAC3Descriptor EXCEPT !.is_valid = FALSE]
        ELSE [is_valid        |-> TRUE,
              component_type  |-> IF has1 THEN <<At(Len(bytes) - s0 + 1)>> ELSE Unset,
              bsid            |-> IF has2 THEN <<At(Len(bytes) - s1 + 1)>> ELSE Unset,
              mainid          |-> IF has3 THEN <<At(Len(bytes) - s2 + 1)>> ELSE Unset,
              asvc            |-> IF has4 THEN <<At(Len(bytes) - s3 + 1)>> ELSE Unset,
              additional_info |-> IF s4 > 0 THEN SubSeq(bytes, Len(bytes) - s4 + 1, Len(bytes))
                                  ELSE <<>>]

\* merge that also takes the fields of the other object that the receiver
\* has already.
AC3Merge_Overwrite(obj, o) ==
    [obj EXCEPT
        !.component_type  = IF o.component_type # Unset THEN o.component_type ELSE @,
        !.bsid            = IF @ = Unset THEN o.bsid ELSE @,
        !.mainid          = IF @ = Unset THEN o.mainid ELSE @,
        !.asvc            = IF @ = Unset THEN o.asvc ELSE @,
        !.additional_info = IF @ = <<>> THEN o.additional_info ELSE @]

\* The receiver after merge(o).
AC3Merge(obj, o) ==
    [obj EXCEPT
        !.component_type  = IF @ = Unset THEN o.component_type ELSE @,
        !.bsid            = IF @ = Unset THEN o.bsid ELSE @,
        !.mainid          = IF @ = Unset THEN o.mainid ELSE @,
        !.asvc            = IF @ = Unset THEN o.asvc ELSE @,
        !.additional_info = IF @ = <<>> THEN o.additional_info ELSE @]

\* The objects the application builds: every presence combination, the
\* smallest and the largest value of a field, additional_info of the sizes
\* around the capacity of a descriptor.
AdditionalInfoSizes == {0, 1, 3, 250, 251, 254, 255, 256}
OptionalValues == {Unset, <<0>>, <<255>>}
AC3Objects ==
    [is_valid        : {TRUE},
     component_type  : OptionalValues,
     bsid            : OptionalValues,
     mainid          : OptionalValues,
     asvc            : OptionalValues,
     additional_info : {[i \in 1..n |-> i % 256] : n \in AdditionalInfoSizes}]

\* The objects given to merge.
AC3Others ==
    [is_valid        : {TRUE},
     component_type  : {Unset, <<17>>},
     bsid            : {Unset, <<18>>},
     mainid          : {Unset, <<19>>},
     asvc            : {Unset, <<20>>},
     additional_info : {<<>>, <<8, 9>>}]

\* The application sets the public fields of the object.
AC3Set ==
    /\ dpc = "idle"
    /\ ac3' \in AC3Objects
    /\ dpc' = "ac3_set"
    /\ UNCHANGED <<vct, mq, codec, other, ecm, bbp, desc, xml, before>>

AC3_serialize ==
    /\ dpc = "ac3_set"
    /\ bbp' = AC3Block(ac3, DID_AC3)
    /\ desc' = DescriptorFromBlock(bbp')
    /\ before' = ac3
    /\ dpc' = "ac3_serialized"
    /\ UNCHANGED <<vct, mq, codec, ac3, other, ecm, xml>>

\* The descriptor arrives with a shorter payload.
AC3ReceiveTruncated ==
    /\ dpc = "ac3_serialized"
    /\ DescIsValid(desc)
    /\ \E n \in 0..4 :
          /\ n < DescPayloadSize(desc)
          /\ desc' = DescriptorFromBlock(
                         <<DescTag(desc), n>> \o SubSeq(DescPayload(desc), 1, n))
    /\ dpc' = "ac3_received"
    /\ UNCHANGED <<vct, mq, codec, ac3, other, ecm, bbp, xml, before>>

\* Another descriptor arrives.
AC3ReceiveOtherTag ==
    /\ dpc = "ac3_serialized"
    /\ DescIsValid(desc)
    /\ desc' = [desc EXCEPT !.bytes = Put(@, 0, <<DID_ECM_REPETITION_RATE>>)]
    /\ dpc' = "ac3_received"
    /\ UNCHANGED <<vct, mq, codec, ac3, other, ecm, bbp, xml, before>>

AC3_deserialize ==
    /\ dpc \in {"ac3_serialized", "ac3_received"}
    /\ ac3' = AC3Read(ac3, desc, DID_AC3)
    /\ dpc' = IF dpc = "ac3_serialized" THEN "ac3_roundtrip" ELSE "ac3_read"
    /\ UNCHANGED <<vct, mq, codec, other, ecm, bbp, desc, xml, before>>

\* The application builds the object that merge is given.
AC3SetOther ==
    /\ dpc = "ac3_set"
    /\ Len(ac3.additional_info) <= 1
    /\ other' \in AC3Others
    /\ dpc' = "ac3_other"
    /\ UNCHANGED <<vct, mq, codec, ac3, ecm, bbp, desc, xml, before>>

AC3_merge ==
    /\ dpc = "ac3_other"
    /\ before' = ac3
    /\ ac3' = AC3Merge(ac3, other)
    /\ dpc' = "ac3_merged"
    /\ UNCHANGED <<vct, mq, codec, other, ecm, bbp, desc, xml>>

NextAC3 ==
    \/ AC3Set
    \/ AC3_serialize
    \/ AC3ReceiveTruncated
    \/ AC3ReceiveOtherTag
    \/ AC3_deserialize
    \/ AC3SetOther
    \/ AC3_merge

SpecAC3 == InitCodec /\ [][NextAC3]_vars

(***************************************************************************)
(* ECMRepetitionRateDescriptor: serialize, deserialize.                    *)
(***************************************************************************)
\* AbstractDescriptor::serializeStart(): a block with room for the tag and
\* the length byte.
serializeStart == <<0, 0>>

\* AbstractDescriptor::serializeEnd(desc, bbp): the block is cut to the
\* capacity of a descriptor, the tag and the length byte are stored.
serializeEnd(block, tag) ==
    LET cut == SubSeq(block, 1, Min(Len(block), 257))
    IN  DescriptorFromBlock(Put(Put(cut, 0, <<tag>>), 1, UInt8(Len(cut) - 2)))

\* The block of serialize with the two numbers in the other order.
ECMBlock_RateFirst(obj) ==
    serializeStart \o UInt16(obj.ECM_repetition_rate) \o UInt16(obj.CA_system_id)
    \o obj.private_data

\* The block that serialize builds.
ECMBlock(obj) ==
    serializeStart \o UInt16(obj.CA_system_id) \o UInt16(obj.ECM_repetition_rate)
    \o obj.private_data

\* The object obj after deserialize of the binary descriptor d.
ECMRead(obj, d, tag) ==
    LET size  == DescPayloadSize(d)
        bytes == DescPayload(d)
        valid == DescIsValid(d) /\ DescTag(d) = tag /\ size >= 4
    IN  IF valid
        THEN [is_valid            |-> TRUE,
              CA_system_id        |-> GetUInt16(bytes, 0),
              ECM_repetition_rate |-> GetUInt16(bytes, 2),
              private_data        |-> SubSeq(bytes, 5, size)]
        ELSE [obj EXCEPT !.is_valid = FALSE, !.private_data = <<>>]

\* The objects the application builds.
PrivateDataSizes == {0, 1, 250, 251, 252}
ECMObjects ==
    [is_valid            : {TRUE},
     CA_system_id        : {0, 1280, 65535},
     ECM_repetition_rate : {0, 500, 65535},
     private_data        : {[i \in 1..n |-> (7 * i) % 256] : n \in PrivateDataSizes}]

\* The objects deserialize is called on: a new one, one in use.
ECMReceivers ==
    {NewECMRepetitionRateDescriptor,
     [is_valid |-> TRUE, CA_system_id |-> 4369, ECM_repetition_rate |-> 8738,
      private_data |-> <<1, 2>>],
     [is_valid |-> FALSE, CA_system_id |-> 1, ECM_repetition_rate |-> 0,
      private_data |-> <<>>]}

\* The application sets the public fields of the object.
ECMSet ==
    /\ dpc = "idle"
    /\ ecm' \in ECMObjects
    /\ dpc' = "ecm_set"
    /\ UNCHANGED <<vct, mq, codec, ac3, other, bbp, desc, xml, before>>

ECM_serialize ==
    /\ dpc = "ecm_set"
    /\ bbp' = ECMBlock(ecm)
    /\ desc' = serializeEnd(bbp', DID_ECM_REPETITION_RATE)
    /\ before' = ecm
    /\ dpc' = "ecm_serialized"
    /\ UNCHANGED <<vct, mq, codec, ac3, other, ecm, xml>>

\* The descriptor arrives with a shorter payload.
ECMReceiveTruncated ==
    /\ dpc = "ecm_serialized"
    /\ \E n \in 0..4 :
          /\ n < DescPayloadSize(desc)
          /\ desc' = DescriptorFromBlock(
                         <<DescTag(desc), n>> \o SubSeq(DescPayload(desc), 1, n))
    /\ dpc' = "ecm_received"
    /\ UNCHANGED <<vct, mq, codec, ac3, other, ecm, bbp, xml, before>>

\* Another descriptor arrives, or an invalid one.
ECMReceiveOther ==
    /\ dpc = "ecm_serialized"
    /\ \/ desc' = [desc EXCEPT !.bytes = Put(@, 0, <<DID_AC3>>)]
       \/ desc' = InvalidDescriptor
    /\ dpc' = "ecm_received"
    /\ UNCHANGED <<vct, mq, codec, ac3, other, ecm, bbp, xml, before>>

\* The object that deserialize is called on.
ECMReceiver ==
    /\ dpc \in {"ecm_serialized", "ecm_received"}
    /\ ecm' \in ECMReceivers
    /\ dpc' = IF dpc = "ecm_serialized" THEN "ecm_ready_same" ELSE "ecm_ready"
    /\ UNCHANGED <<vct, mq, codec, ac3, other, bbp, desc, xml, before>>

ECM_deserialize ==
    /\ dpc \in {"ecm_ready_same", "ecm_ready"}
    /\ ecm' = ECMRead(ecm, desc, DID_ECM_REPETITION_RATE)
    /\ dpc' = IF dpc = "ecm_ready_same" THEN "ecm_roundtrip" ELSE "ecm_read"
    /\ UNCHANGED <<vct, mq, codec, ac3, other, bbp, desc, xml, before>>

NextECM ==
    \/ ECMSet
    \/ ECM_serialize
    \/ ECMReceiveTruncated
    \/ ECMReceiveOther
    \/ ECMReceiver
    \/ ECM_deserialize

SpecECM == InitCodec /\ [][NextECM]_vars

(***************************************************************************)
(* XML: AbstractVCT::buildXML, AbstractVCT::fromXML,                       *)
(* ECMRepetitionRateDescriptor::fromXML.                                   *)
(* An element is a name, attributes (a function from the attribute names   *)
(* to their values) and the child elements in order.                       *)
(***************************************************************************)
Element(name) == [name |-> name, attributes |-> <<>>, children |-> <<>>]

\* xml::Element::setAttribute and its typed variants: the attribute is
\* added to the element, or takes the new value when the element has it.
setAttribute(e, name, value) ==
    [e EXCEPT !.attributes =
        [n \in (DOMAIN @) \cup {name} |-> IF n = name THEN value ELSE @[n]]]

\* xml::Element::addElement: a child is added after the existing ones.
addElement(e, child) == [e EXCEPT !.children = Append(@, child)]

\* DescriptorList::toXML(parent): one child element per descriptor.
toXML(ds, parent) ==
    [parent EXCEPT !.children =
        @ \o [i \in 1..Len(ds) |->
                 setAttribute(Element("generic_descriptor"), "tag", ds[i][1])]]

\* The name of the root element of the table.
XMLName(tid) == IF tid = TID_CVCT THEN "CVCT" ELSE "TVCT"

\* One turn of the loop of buildXML on the channels: the root element
\* after the channel ch was added.
BuildChannel(root, ch, tid) ==
    LET e1 == setAttribute(Element("channel"), "short_name", ch.short_name)
        e2 == setAttribute(e1, "major_channel_number", ch.major_channel_number)
        e3 == setAttribute(e2, "minor_channel_number", ch.minor_channel_number)
        e4 == setAttribute(e3, "modulation_mode", ch.modulation_mode)
        e5 == setAttribute(e4, "carrier_frequency", ch.carrier_frequency)
        e6 == setAttribute(e5, "channel_TSID", ch.channel_TSID)
        e7 == setAttribute(e6, "program_number", ch.program_number)
        e8 == setAttribute(e7, "ETM_location", ch.ETM_location)
        r1 == setAttribute(root, "access_controlled", ch.access_controlled)
        r2 == setAttribute(r1, "hidden", ch.hidden)
        e9 == IF tid = TID_CVCT THEN setAttribute(e8, "path_select", ch.path_select)
              ELSE e8
        r3 == IF tid = TID_CVCT THEN setAttribute(r2, "out_of_band", ch.out_of_band)
              ELSE r2
        r4 == setAttribute(r3, "hide_guide", ch.hide_guide)
        e10 == setAttribute(e9, "service_type", ch.service_type)
        e11 == setAttribute(e10, "source_id", ch.source_id)
    IN  addElement(r4, toXML(ch.descs, e11))

RECURSIVE BuildChannels(_, _, _)
BuildChannels(root, chs, tid) ==
    IF chs = <<>> THEN root
    ELSE BuildChannels(BuildChannel(root, Head(chs), tid), Tail(chs), tid)

\* The root element after buildXML(root).
BuildXML(root) ==
    LET r1 == setAttribute(root, "version", version)
        r2 == setAttribute(r1, "current", is_current)
        r3 == setAttribute(r2, "transport_stream_id", transport_stream_id)
        r4 == setAttribute(r3, "protocol_version", protocol_version)
    IN  BuildChannels(toXML(descs, r4), channels, table_id)

\* The tables given to buildXML: up to two channels, every value of their
\* boolean fields.
XMLChannels ==
    {<<>>} \cup
    {[i \in 1..n |-> [SampleChannel(i, 0) EXCEPT
                        !.access_controlled = f[i][1], !.hidden = f[i][2],
                        !.out_of_band = f[i][3], !.hide_guide = f[i][4]]] :
        n \in 1..2, f \in [1..2 -> BOOLEAN \X BOOLEAN \X BOOLEAN \X BOOLEAN]}

InitXML ==
    /\ table_id \in {TID_TVCT, TID_CVCT}
    /\ is_valid \in BOOLEAN
    /\ version = 5
    /\ is_current = TRUE
    /\ protocol_version = 1
    /\ transport_stream_id = 4660
    /\ channels \in XMLChannels
    /\ descs \in {<<>>, <<Descriptor(128, 1, 0)>>}
    /\ table = <<>>
    /\ payload = <<>>
    /\ section_number = 0
    /\ data = 0
    /\ remain = 0
    /\ channel_index = 0
    /\ next_desc = 0
    /\ num_channels = 0
    /\ si = 0
    /\ pc = "codec"
    /\ orig = [channels |-> <<>>, descs |-> <<>>]
    /\ deferred = -1
    /\ intact = TRUE
    /\ codec = [op |-> "idle"]
    /\ InitObjs
    /\ NewMessageQueue(0)

VCT_buildXML ==
    /\ dpc = "idle"
    /\ xml' = BuildXML(Element(XMLName(table_id)))
    /\ dpc' = "vct_xml"
    /\ UNCHANGED <<vct, mq, codec, ac3, other, ecm, bbp, desc, before>>

\* The elements given to AbstractVCT::fromXML: a complete one, one of
\* another name, one without the required transport_stream_id, one with a
\* version out of range.
VCTElements(tid) ==
    LET good == setAttribute(setAttribute(setAttribute(setAttribute(
                    Element(XMLName(tid)), "version", 3), "current", TRUE),
                    "transport_stream_id", 291), "protocol_version", 0)
    IN  {good,
         [good EXCEPT !.name = "PMT"],
         setAttribute(setAttribute(Element(XMLName(tid)), "version", 3),
                      "protocol_version", 0),
         setAttribute(good, "version", 32)}

\* AbstractVCT::fromXML: the two lists are cleared, nothing else is done.
VCT_fromXML ==
    /\ dpc = "idle"
    /\ xml' \in VCTElements(table_id)
    /\ descs' = <<>>
    /\ channels' = <<>>
    /\ before' = <<is_valid>>
    /\ dpc' = "vct_parsed"
    /\ UNCHANGED <<table_id, is_valid, version, is_current, protocol_version,
                   transport_stream_id, table, locals, si, pc, orig, deferred,
                   intact, codec, mq, ac3, other, ecm, bbp, desc>>

\* The name of the element of the descriptor.
MY_XML_NAME == "ECM_repetition_rate_descriptor"

\* xml::Element::getIntAttribute<uint16_t>(value, name, true): the
\* required attribute is there and is a 16-bit value.
getIntAttribute(e, name) ==
    /\ name \in DOMAIN e.attributes
    /\ e.attributes[name] \in 0..65535

\* xml::Element::getHexaTextChild(data, name, false, 0, max): there is no
\* child of that name, or one whose bytes are not more than max.
getHexaTextChild(e, name, max) ==
    LET found == SelectSeq(e.children, LAMBDA c : c.name = name)
    IN  /\ Len(found) <= 1
        /\ Len(found) = 1 => Len(found[1].attributes["hexa"]) <= max

HexaTextOf(e, name) ==
    LET found == SelectSeq(e.children, LAMBDA c : c.name = name)
    IN  IF Len(found) = 1 THEN found[1].attributes["hexa"] ELSE <<>>

\* The object obj after ECMRepetitionRateDescriptor::fromXML(element).
ECMFromXML(obj, e) ==
    LET ok0 == e.name = MY_XML_NAME
        ok1 == ok0 /\ getIntAttribute(e, "CA_system_id")
        ok2 == ok1 /\ getIntAttribute(e, "ECM_repetition_rate")
        ok3 == ok2 /\ getHexaTextChild(e, "private_data", 251)
    IN  [is_valid            |-> ok3,
         CA_system_id        |-> IF ok1 THEN e.attributes["CA_system_id"]
                                 ELSE obj.CA_system_id,
         ECM_repetition_rate |-> IF ok2 THEN e.attributes["ECM_repetition_rate"]
                                 ELSE obj.ECM_repetition_rate,
         private_data        |-> IF ok3 THEN HexaTextOf(e, "private_data") ELSE <<>>]

\* The elements given to ECMRepetitionRateDescriptor::fromXML.
ECMElements ==
    LET good == setAttribute(setAttribute(
                    Element(MY_XML_NAME), "CA_system_id", 1280),
                    "ECM_repetition_rate", 500)
        hexa(n) == setAttribute(Element("private_data"), "hexa",
                                [i \in 1..n |-> i % 256])
    IN  {good,
         addElement(good, hexa(2)),
         addElement(good, hexa(252)),
         [good EXCEPT !.name = "AC-3_descriptor"],
         setAttribute(Element(MY_XML_NAME), "CA_system_id", 1280),
         setAttribute(Element(MY_XML_NAME), "ECM_repetition_rate", 500),
         setAttribute(good, "ECM_repetition_rate", 65536)}

ECM_fromXML ==
    /\ dpc = "idle"
    /\ \E obj \in ECMReceivers, e \in ECMElements :
          /\ xml' = e
          /\ before' = obj
          /\ ecm' = ECMFromXML(obj, e)
    /\ dpc' = "ecm_parsed"
    /\ UNCHANGED <<vct, mq, codec, ac3, other, bbp, desc>>

NextXML ==
    \/ VCT_buildXML
    \/ VCT_fromXML
    \/ ECM_fromXML

SpecXML == InitXML /\ [][NextXML]_vars

(***************************************************************************)
(* MessageQueue: producers and consumers sharing one queue.  Each call     *)
(* takes _mutex, then either completes or waits on a condition, which      *)
(* releases _mutex until the wait returns.                                 *)
(***************************************************************************)
\* The timeouts a caller can give: none at all, some finite time, Infinite.
Timeouts == {"zero", "finite", "infinite"}

\* The queue has a limit and holds that many messages, or more.
Full_AboveLimit == maxMessages /= 0 /\ Len(queue) > maxMessages

Full == maxMessages /= 0 /\ Len(queue) >= maxMessages

\* The thread enters a call and has to take _mutex first.
Enter(t, op, timeout) ==
    thread' = [thread EXCEPT ![t] = [op |-> op, at |-> "lock",
                                     timeout |-> timeout, result |-> Unset]]

\* The thread leaves its call with a result and releases _mutex.
Leave(t, result) ==
    /\ thread' = [thread EXCEPT ![t].at = "out", ![t].timeout = "none",
                                 ![t].result = result]
    /\ mutex' = 0

\* The thread waits on a condition: _mutex is released during the wait.
Wait(t) ==
    /\ thread' = [thread EXCEPT ![t].at = "wait"]
    /\ mutex' = 0

InitMQ ==
    /\ table_id = TID_TVCT
    /\ is_valid = TRUE
    /\ version = 0
    /\ is_current = TRUE
    /\ protocol_version = 0
    /\ transport_stream_id = 0
    /\ channels = <<>>
    /\ descs = <<>>
    /\ table = <<>>
    /\ payload = <<>>
    /\ section_number = 0
    /\ data = 0
    /\ remain = 0
    /\ channel_index = 0
    /\ next_desc = 0
    /\ num_channels = 0
    /\ si = 0
    /\ pc = "codec"
    /\ orig = [channels |-> <<>>, descs |-> <<>>]
    /\ deferred = -1
    /\ intact = TRUE
    /\ codec = [op |-> "idle"]
    /\ InitObjs
    /\ \E max \in 0..MaxLimit : NewMessageQueue(max)

\* A producer calls enqueue (msg, timeout).
MQ_enqueueCall ==
    \E t \in Producers, timeout \in Timeouts :
        /\ thread[t].at = "out"
        /\ maxMessages = 0 => Len(queue) < MaxUnlimited
        /\ Enter(t, "enqueue", timeout)
        /\ UNCHANGED <<vct, codec, objs, maxMessages, queue, mutex, forced>>

\* A producer calls forceEnqueue (msg).
MQ_forceEnqueueCall ==
    \E t \in Producers :
        /\ thread[t].at = "out"
        /\ forced < MaxForced
        /\ Enter(t, "forceEnqueue", "none")
        /\ forced' = forced + 1
        /\ UNCHANGED <<vct, codec, objs, maxMessages, queue, mutex>>

\* A consumer calls dequeue (msg, timeout).
MQ_dequeueCall ==
    \E t \in Consumers, timeout \in Timeouts :
        /\ thread[t].at = "out"
        /\ Enter(t, "dequeue", timeout)
        /\ UNCHANGED <<vct, codec, objs, maxMessages, queue, mutex, forced>>

\* The thread takes _mutex, at the start of a call or when a wait returns.
MQ_acquire ==
    \E t \in Threads :
        /\ thread[t].at = "lock"
        /\ mutex = 0
        /\ mutex' = t
        /\ thread' = [thread EXCEPT ![t].at = "held"]
        /\ UNCHANGED <<vct, codec, objs, maxMessages, queue, forced>>

\* enqueue: wait while the queue is full and time remains, then insert the
\* message, or fail when the queue is still full.
MQ_enqueue ==
    \E t \in Producers :
        /\ thread[t].op = "enqueue"
        /\ thread[t].at = "held"
        /\ mutex = t
        /\ IF Full /\ thread[t].timeout /= "zero"
           THEN /\ Wait(t)
                /\ UNCHANGED queue
           ELSE IF Full
           THEN /\ Leave(t, FALSE)
                /\ UNCHANGED queue
           ELSE /\ queue' = Append(queue, "enqueue")
                /\ Leave(t, TRUE)
        /\ UNCHANGED <<vct, codec, objs, maxMessages, forced>>

\* forceEnqueue: insert the message, whatever the size of the queue.
MQ_forceEnqueue ==
    \E t \in Producers :
        /\ thread[t].op = "forceEnqueue"
        /\ thread[t].at = "held"
        /\ mutex = t
        /\ queue' = Append(queue, "forceEnqueue")
        /\ Leave(t, Unset)
        /\ UNCHANGED <<vct, codec, objs, maxMessages, forced>>

\* dequeue: wait while the queue is empty and time remains, then remove the
\* oldest message, or fail when the queue is still empty.
MQ_dequeue ==
    \E t \in Consumers :
        /\ thread[t].op = "dequeue"
        /\ thread[t].at = "held"
        /\ mutex = t
        /\ IF queue = <<>> /\ thread[t].timeout /= "zero"
           THEN /\ Wait(t)
                /\ UNCHANGED queue
           ELSE IF queue = <<>>
           THEN /\ Leave(t, FALSE)
                /\ UNCHANGED queue
           ELSE /\ queue' = Tail(queue)
                /\ Leave(t, TRUE)
        /\ UNCHANGED <<vct, codec, objs, maxMessages, forced>>

\* A wait on a condition returns, signalled or not: the thread takes _mutex
\* again and looks at the queue again.
MQ_wake ==
    \E t \in Threads :
        /\ thread[t].at = "wait"
        /\ thread' = [thread EXCEPT ![t].at = "lock"]
        /\ UNCHANGED <<vct, codec, objs, maxMessages, queue, mutex, forced>>

\* The timeout of a waiting thread expires: no time remains.
MQ_expire ==
    \E t \in Threads :
        /\ thread[t].at = "wait"
        /\ thread[t].timeout = "finite"
        /\ thread' = [thread EXCEPT ![t].at = "lock", ![t].timeout = "zero"]
        /\ UNCHANGED <<vct, codec, objs, maxMessages, queue, mutex, forced>>

NextMQ ==
    \/ MQ_enqueueCall
    \/ MQ_forceEnqueueCall
    \/ MQ_dequeueCall
    \/ MQ_acquire
    \/ MQ_enqueue
    \/ MQ_forceEnqueue
    \/ MQ_dequeue
    \/ MQ_wake
    \/ MQ_expire

SpecMQ == InitMQ /\ [][NextMQ]_vars

(***************************************************************************)
(* Properties.                                                             *)
(***************************************************************************)
\* A channel whose fields are within their wire ranges.
ChannelInRange(ch) ==
    /\ Len(ch.short_name) <= 7
    /\ \A i \in 1..Len(ch.short_name) : ch.short_name[i] \in 1..65535
    /\ ch.major_channel_number < 1024
    /\ ch.minor_channel_number < 1024
    /\ ch.ETM_location < 4
    /\ ch.service_type < 64
    /\ ch.path_select < 2
    /\ TotalSize(ch.descs) < 1024
    /\ TotalSize(ch.descs) <= MAX_PSI_LONG_SECTION_PAYLOAD_SIZE - 36

\* deserialize has returned from the table that serialize built out of a
\* valid object whose channels are within their wire ranges.
RoundTripDone ==
    /\ pc \in {"done", "rejected", "aborted"}
    /\ intact
    /\ Len(table) > 0
    /\ \A i \in 1..Len(orig.channels) : ChannelInRange(orig.channels[i])

\* C1: VCT round-trip. deserialize(serialize(T)) is a valid table equal to T
\* field for field: protocol_version, transport_stream_id, version,
\* is_current, the channels with their fields and descriptor lists, and the
\* global descriptor list.
C1_RoundTrip == RoundTripDone => (is_valid /\ Content = orig)

\* C2: multi-section split and merge. When the channel list needed more than
\* one section, deserialize of the sections produced yields exactly the
\* original channels in the original order.
C2_MultiSectionChannels ==
    (RoundTripDone /\ Len(table) > 1) => channels = orig.channels


\* The descriptor list of channel ch fits whole in a section where remain
\* bytes are left: 32 fixed bytes, the list, 2 bytes for the end of section.
FitsWhole(ch, rem) == 32 + TotalSize(ch.descs) + 2 <= rem

\* C3: acceptance rule of the channel loop of serialize. The first channel
\* attempted in a section is kept (num_channels and channel_index advance)
\* even when only a part of its descriptors fit. A later channel of the
\* section whose descriptors did not all fit is rolled back: data, remain,
\* channel_index and num_channels are as before the attempt. The section is
\* then closed, and the next section attempts that same channel first.
C3_AcceptanceRule ==
    [][ /\ (pc = "chan" /\ MoreChannels /\ num_channels = 0) =>
            /\ num_channels' = 1
            /\ channel_index' = channel_index + 1
            /\ pc' = "chan"
            /\ deferred \in {-1, channel_index}
        /\ (pc = "chan" /\ MoreChannels /\ num_channels > 0
                /\ ~FitsWhole(channels[channel_index + 1], remain)) =>
            /\ data' = data
            /\ remain' = remain
            /\ channel_index' = channel_index
            /\ num_channels' = num_channels
            /\ deferred' = channel_index
            /\ pc' = "close"
        /\ (pc = "close" /\ deferred # -1) =>
            /\ Len(table') = Len(table) + 1
            /\ channel_index' = deferred
            /\ pc' = "loop"
        /\ (pc = "loop" /\ deferred # -1) =>
            /\ pc' = "chan"
            /\ num_channels' = 0
            /\ channel_index' = deferred
            /\ MoreChannels'
      ]_vars

\* A channel that was rolled back is the first one of the next section, and
\* its descriptors do not all fit there either: it is about to be kept with
\* a part of them.
C3_Witness ==
    /\ pc = "chan"
    /\ section_number = 1
    /\ num_channels = 0
    /\ deferred = channel_index
    /\ MoreChannels
    /\ ~FitsWhole(channels[channel_index + 1], remain)


\* C4, as claimed: global descriptors are written in a section only when
\* all channels have been placed (channel_index = channels.size()).
C4_GlobalsOnlyAfterChannels ==
    [][ (pc = "close" /\ next_desc' > next_desc) => channel_index = Len(channels) ]_vars

\* C4, amended: in every section the global descriptor list follows the
\* channels kept in the section and takes the space they left: as many of
\* the global descriptors not yet written as fit whole are written, in
\* order, also when a channel is still pending for a later section.
C4_GlobalsFillRemainder ==
    [][ pc = "close" =>
          LET sect    == table'[Len(table')]
              written == SubSeq(descs, next_desc + 1, next_desc')
          IN  /\ next_desc' >= next_desc
              /\ Len(sect.payload) = data + 2 + TotalSize(written)
              /\ SubSeq(sect.payload, data + 3, Len(sect.payload)) = Flatten(written)
              /\ TotalSize(written) <= remain - 2
              /\ next_desc' < Len(descs) =>
                    TotalSize(written) + Len(descs[next_desc' + 1]) > remain - 2
      ]_vars

\* A section was closed with a global descriptor in it while a channel is
\* still to be placed.
C4_Witness ==
    /\ pc = "loop"
    /\ channel_index < Len(channels)
    /\ next_desc > 0
    /\ Len(table) > 0

\* C5: serialize on a valid table terminates, and when it returns at least
\* one section was emitted, channel_index = channels.size() and next_desc =
\* descs.count(); an empty table yields exactly one section.
C5_SerializeTerminates ==
    /\ <>(pc = "serialized")
    /\ [](pc = "serialized" /\ is_valid =>
            /\ Len(table) >= 1
            /\ channel_index = Len(channels)
            /\ next_desc = Len(descs)
            /\ (Len(channels) = 0 /\ Len(descs) = 0) => Len(table) = 1)

\* serialize returned after a section that holds global descriptors only.
C5_Witness ==
    /\ pc = "serialized"
    /\ is_valid
    /\ Len(table) > 1
    /\ num_channels = 0
    /\ next_desc = Len(descs)
    /\ channel_index = Len(channels)

\* C6: section numbering. When serialize emitted N sections, the k-th one
\* (from 0) carries section_number k and every one carries
\* last_section_number N - 1.
C6_SectionNumbering ==
    pc = "serialized" =>
        \A k \in 1..Len(table) :
            /\ table[k].section_number = k - 1
            /\ table[k].last_section_number = Len(table) - 1

\* serialize returned three sections.
C6_Witness == pc = "serialized" /\ Len(table) = 3


\* A section payload that deserialize cannot read to its end: it is shorter
\* than 2 bytes, or it announces more channels than its bytes hold, or it
\* has no room for the length of the global descriptor list.
SectionFails(b) ==
    \/ Len(b) < 2
    \/ ChannelLoop(b, 2, Len(b) - 2, b[2], table_id).num > 0
    \/ ChannelLoop(b, 2, Len(b) - 2, b[2], table_id).rem < 2

\* The channels read from the payload of a section.
ChannelsOf(b) ==
    IF Len(b) < 2 THEN <<>> ELSE ChannelLoop(b, 2, Len(b) - 2, b[2], table_id).chans

\* The global descriptors read from the payload of a section read to its end.
GlobalsOf(b) ==
    LET loop == ChannelLoop(b, 2, Len(b) - 2, b[2], table_id)
    IN  AddDescriptors(b, loop.off + 2,
                       Min(InfoLength(GetUInt16(b, loop.off)), loop.rem - 2))

\* C7, as claimed: after an abort of deserialize the table is invalid and
\* holds no partial content: no channel and no global descriptor parsed
\* from an earlier section or from the section that fails.
C7_NoPartialContent ==
    pc = "aborted" => (~is_valid /\ channels = <<>> /\ descs = <<>>)

\* C7, amended: deserialize stops at the first section that it cannot read
\* to its end and the table is invalid; the channel list and the global
\* descriptor list are not cleared, they hold what was parsed up to there:
\* the channels and the global descriptors of the sections before, and the
\* channels read from the section that fails.
C7_AbortKeepsParsed ==
    /\ pc \in {"sections", "done", "aborted"} =>
          \A i \in 1..si : ~SectionFails(table[i].payload)
    /\ pc = "aborted" =>
          /\ ~is_valid
          /\ si < Len(table)
          /\ SectionFails(table[si + 1].payload)
          /\ channels = Flatten([i \in 1..(si + 1) |-> ChannelsOf(table[i].payload)])
          /\ descs = Flatten([i \in 1..si |-> GlobalsOf(table[i].payload)])

\* deserialize aborted in the second section; the object holds global
\* descriptors of the first section and a channel of the second one.
C7_Witness ==
    /\ pc = "aborted"
    /\ si = 1
    /\ Len(channels) > 0
    /\ Len(descs) > 0

\* C8: validity of a deserialized table. When deserialize has returned,
\* _is_valid is true if and only if the binary table was valid, had the
\* table id of the object, and every section was read to its end; _is_valid
\* is false at every point of the loop on the sections.
C8_ValidIffComplete ==
    /\ pc = "sections" => ~is_valid
    /\ pc \in {"done", "rejected", "aborted"} =>
          (is_valid <=>
              /\ BinaryTableIsValid(table)
              /\ BinaryTableId(table) = table_id
              /\ \A i \in 1..Len(table) : ~SectionFails(table[i].payload))

\* deserialize returned a valid table after its second section.
C8_Witness ==
    /\ pc = "done"
    /\ is_valid
    /\ si = 2


\* C9: the 10-bit descriptor list length. serialize writes a 16-bit field of
\* 6 reserved bits, all 1, above a 10-bit length; deserialize takes the low
\* 10 bits of the field as the length: the length read is the length
\* written, for every length 0..1023.
C9_ListLengthRoundTrip ==
    codec.op = "length_read" =>
        /\ GetUInt16(codec.bytes, 0) = 64512 + codec.length
        /\ codec.read = codec.length

\* C10: the packed channel number. serialize writes a 24-bit field whose 4
\* highest bits are all 1, followed by the 10 bits of major_channel_number
\* and the 10 bits of minor_channel_number; deserialize gets back the major
\* and minor numbers written, for every pair of values in 0..1023.
C10_ChannelNumberRoundTrip ==
    codec.op = "number_read" =>
        /\ GetUInt24(codec.bytes, 0) = 15728640 + 1024 * codec.major + codec.minor
        /\ codec.read_major = codec.major
        /\ codec.read_minor = codec.minor


C12_LastSectionWins ==
    /\ (pc \in {"sections", "done"} /\ si > 0) =>
          /\ version = table[si].version
          /\ is_current = table[si].is_current
          /\ transport_stream_id = table[si].tid_ext
          /\ protocol_version = table[si].payload[1]
    /\ pc \in {"sections", "done"} =>
          /\ channels = Flatten([i \in 1..si |-> ChannelsOf(table[i].payload)])
          /\ descs = Flatten([i \in 1..si |-> GlobalsOf(table[i].payload)])
    /\ pc = "done" => (is_valid /\ si = Len(table))
    /\ pc = "aborted" => SectionFails(table[si + 1].payload)

\* A valid table was read from two sections stored in the reverse order of
\* their numbers, the first one with another version than the last one.
C12_Witness ==
    /\ pc = "done"
    /\ is_valid
    /\ Len(table) = 2
    /\ table[1].section_number = 1
    /\ table[2].section_number = 0
    /\ table[1].version # table[2].version
    /\ version = table[2].version
    /\ Len(descs) > 0


\* The number of optional fields of an AC3Descriptor object that are set.
AC3SetCount(d) ==
    Len(d.component_type) + Len(d.bsid) + Len(d.mainid) + Len(d.asvc)

\* C13: the optional-field bitmask of the AC-3 descriptor. For each of the
\* 16 presence combinations of component_type, bsid, mainid and asvc, with
\* an empty additional_info, serialize produces a descriptor whose length
\* byte is 1 plus the number of fields present and whose first payload byte
\* has bits 0x80, 0x40, 0x20, 0x10 set exactly for the fields present;
\* deserialize of that descriptor yields a valid object with the same
\* combination and the same values.
C13_PresenceCombinations ==
    /\ (dpc = "ac3_serialized" /\ before.additional_info = <<>>) =>
          /\ DescIsValid(desc)
          /\ DescTag(desc) = DID_AC3
          /\ desc.bytes[2] = 1 + AC3SetCount(before)
          /\ Len(desc.bytes) = 3 + AC3SetCount(before)
          /\ desc.bytes[3] = 128 * Len(before.component_type) + 64 * Len(before.bsid)
                             + 32 * Len(before.mainid) + 16 * Len(before.asvc)
    /\ (dpc = "ac3_roundtrip" /\ before.additional_info = <<>>) =>
          /\ ac3.is_valid
          /\ ac3 = before

\* bsid and asvc alone were set, serialized and read back.
C13_Witness ==
    /\ dpc = "ac3_roundtrip"
    /\ before.additional_info = <<>>
    /\ before.component_type = Unset
    /\ before.bsid = <<255>>
    /\ before.mainid = Unset
    /\ before.asvc = <<0>>
    /\ ac3.bsid = <<255>>
    /\ ac3.asvc = <<0>>
    /\ desc.bytes = <<DID_AC3, 3, 80, 255, 0>>

\* C14: truncation safety of the AC-3 descriptor. After every deserialize
\* that leaves the object valid, each of component_type, bsid, mainid and
\* asvc is set if and only if its bit is set in the bitmask byte: a payload
\* whose bitmask announces a field it is too short to contain never gives a
\* valid object.
C14_TruncationSafety ==
    (dpc \in {"ac3_roundtrip", "ac3_read"} /\ ac3.is_valid) =>
        LET flags == desc.bytes[3]
            Bit(n) == (flags \div n) % 2 = 1
        IN  /\ ac3.component_type # Unset <=> Bit(128)
            /\ ac3.bsid # Unset <=> Bit(64)
            /\ ac3.mainid # Unset <=> Bit(32)
            /\ ac3.asvc # Unset <=> Bit(16)

\* C15: merge(other) leaves every field that is set in the receiver as it
\* is, gives each unset field of the receiver the value other has for it
\* (so it is set exactly when other has it set), takes the additional_info
\* of other only when the receiver's is empty, and never modifies other.
C15_MergeFillsUnset ==
    /\ [](dpc = "ac3_merged" =>
            /\ ac3.component_type =
                  IF before.component_type # Unset THEN before.component_type
                  ELSE other.component_type
            /\ ac3.bsid = IF before.bsid # Unset THEN before.bsid ELSE other.bsid
            /\ ac3.mainid = IF before.mainid # Unset THEN before.mainid ELSE other.mainid
            /\ ac3.asvc = IF before.asvc # Unset THEN before.asvc ELSE other.asvc
            /\ ac3.additional_info =
                  IF before.additional_info # <<>> THEN before.additional_info
                  ELSE other.additional_info
            /\ ac3.is_valid = before.is_valid)
    /\ [][dpc = "ac3_other" => other' = other]_vars

\* merge filled bsid, which the receiver had not, and kept mainid and
\* additional_info, which both objects had.
C15_Witness ==
    /\ dpc = "ac3_merged"
    /\ before.bsid = Unset
    /\ other.bsid = <<18>>
    /\ ac3.bsid = <<18>>
    /\ before.mainid = <<255>>
    /\ other.mainid = <<19>>
    /\ ac3.mainid = <<255>>
    /\ before.additional_info = <<1>>
    /\ other.additional_info = <<8, 9>>
    /\ ac3.additional_info = <<1>>

\* C16: the capacity clamp of a descriptor. For every object, also one
\* whose additional_info is longer than the space left after the other
\* fields, serialize gives a descriptor of at most 257 bytes whose length
\* byte is the number of payload bytes that follow it, the additional data
\* in excess being cut off.
C16_CapacityClamp ==
    dpc = "ac3_serialized" =>
        LET full == <<AC3Flags(before)>> \o before.component_type \o before.bsid
                    \o before.mainid \o before.asvc \o before.additional_info
            n    == Min(Len(full), 255)
        IN  /\ DescIsValid(desc)
            /\ Len(desc.bytes) <= 257
            /\ desc.bytes[2] = Len(desc.bytes) - 2
            /\ desc.bytes = <<DID_AC3, n>> \o SubSeq(full, 1, n)


\* C17: round trip of the ECM_repetition_rate descriptor. serialize emits
\* the tag, a length byte of 4 + |private_data|, CA_system_id and
\* ECM_repetition_rate as two big-endian 16-bit values in that order, then
\* private_data as it is (CA_system_id 0x0500, rate 500, no private data:
\* length 04, payload 05 00 01 F4); deserialize of the result gives a valid
\* object with the same three fields, for a private_data of at most 251
\* bytes.
C17_ECMRoundTrip ==
    /\ (dpc = "ecm_serialized" /\ Len(before.private_data) <= 251) =>
          /\ DescIsValid(desc)
          /\ desc.bytes =
                <<DID_ECM_REPETITION_RATE, 4 + Len(before.private_data),
                  before.CA_system_id \div 256, before.CA_system_id % 256,
                  before.ECM_repetition_rate \div 256,
                  before.ECM_repetition_rate % 256>>
                \o before.private_data
    /\ (dpc = "ecm_serialized" /\ before.CA_system_id = 1280
          /\ before.ECM_repetition_rate = 500 /\ before.private_data = <<>>) =>
          desc.bytes = <<DID_ECM_REPETITION_RATE, 4, 5, 0, 1, 244>>
    /\ (dpc = "ecm_roundtrip" /\ Len(before.private_data) <= 251) =>
          /\ ecm.is_valid
          /\ ecm = before

\* The descriptor of CA_system_id 0x0500 and rate 500 with 251 bytes of
\* private data was read back.
C17_Witness ==
    /\ dpc = "ecm_roundtrip"
    /\ before.CA_system_id = 1280
    /\ before.ECM_repetition_rate = 500
    /\ Len(before.private_data) = 251
    /\ Len(desc.bytes) = 257
    /\ ecm.CA_system_id = 1280
    /\ ecm.ECM_repetition_rate = 500
    /\ Len(ecm.private_data) = 251

\* C18: a failed decode resets the object. Whenever deserialize rejects
\* its input (an invalid binary descriptor, another tag, a payload of less
\* than 4 bytes) the object is invalid and all its fields have their
\* default values, whatever the object held before the call.
C18_FailedDecodeResets ==
    (dpc \in {"ecm_roundtrip", "ecm_read"} /\ ~ecm.is_valid) =>
        /\ ecm.CA_system_id = 0
        /\ ecm.ECM_repetition_rate = 0
        /\ ecm.private_data = <<>>


\* C19: buildXML puts every field where it belongs. The tree has one
\* <channel> child per channel, in list order; every scalar field of a
\* channel, access_controlled, hidden, hide_guide and (in a CVCT)
\* out_of_band included, is an attribute of the element of that channel
\* with the value of that channel; the root element carries the attributes
\* of the table only.
C19_BuildXMLPlacement ==
    dpc = "vct_xml" =>
        LET chans == SelectSeq(xml.children, LAMBDA c : c.name = "channel")
            Flags == {"access_controlled", "hidden", "hide_guide"}
                     \cup (IF table_id = TID_CVCT THEN {"out_of_band"} ELSE {})
        IN  /\ Len(chans) = Len(channels)
            /\ \A i \in 1..Len(channels) :
                  /\ Flags \subseteq DOMAIN chans[i].attributes
                  /\ \A n \in Flags : chans[i].attributes[n] = channels[i][n]
                  /\ chans[i].attributes["short_name"] = channels[i].short_name
                  /\ chans[i].attributes["source_id"] = channels[i].source_id
            /\ DOMAIN xml.attributes =
                  {"version", "current", "transport_stream_id", "protocol_version"}

\* An element that fromXML of a VCT must refuse: another name, no
\* transport_stream_id, a version that is not a 5-bit value.
VCTElementRefused(e) ==
    \/ e.name # XMLName(table_id)
    \/ "transport_stream_id" \notin DOMAIN e.attributes
    \/ e.attributes["version"] > 31

\* An element that fromXML of the ECM_repetition_rate descriptor must
\* refuse: another name, a required attribute that is missing or is not a
\* 16-bit value.
ECMElementRefused(e) ==
    \/ e.name # MY_XML_NAME
    \/ \E n \in {"CA_system_id", "ECM_repetition_rate"} :
          n \notin DOMAIN e.attributes \/ e.attributes[n] > 65535

\* C20: fromXML fails closed. After fromXML on an element of another name,
\* or without a required attribute, or with a value out of range, the object
\* is invalid, whatever its validity was before the call; this for
\* AbstractVCT::fromXML and for ECMRepetitionRateDescriptor::fromXML.
C20_FromXMLFailsClosed ==
    /\ (dpc = "vct_parsed" /\ VCTElementRefused(xml)) => ~is_valid
    /\ (dpc = "ecm_parsed" /\ ECMElementRefused(xml)) => ~ecm.is_valid


\* The number of leading descriptors of ds that fit whole in room bytes.
LeadingFit(ds, room) ==
    CHOOSE k \in 0..Len(ds) :
        /\ TotalSize(SubSeq(ds, 1, k)) <= room
        /\ k < Len(ds) => TotalSize(SubSeq(ds, 1, k + 1)) > room

\* C21: no descriptor list of a channel straddles a section boundary. When
\* serialize keeps a channel, its 30 fixed bytes, its descriptor-list length
\* field and the descriptors emitted for it follow each other in the
\* payload of the current section and leave room for the global length
\* field; the descriptors emitted are leading descriptors of the channel,
\* each of them whole, and the length field is their total size; the
\* bytes of the channels kept before are not touched, and when the section
\* is closed all these bytes are in the section that is emitted.
C21_NoStraddle ==
    [][ /\ (pc = "chan" /\ MoreChannels /\ pc' = "chan") =>
              LET ch      == channels[channel_index + 1]
                  k       == LeadingFit(ch.descs, remain - 34)
                  emitted == SubSeq(ch.descs, 1, k)
              IN  /\ data' = data + 32 + TotalSize(emitted)
                  /\ data' + 2 <= MAX_PSI_LONG_SECTION_PAYLOAD_SIZE
                  /\ SubSeq(payload', data + 1, data + 30) = ChannelFixedBytes(ch, table_id)
                  /\ GetUInt16(payload', data + 30) % 1024 = TotalSize(emitted)
                  /\ SubSeq(payload', data + 33, data') = Flatten(emitted)
                  /\ SubSeq(payload', 3, data) = SubSeq(payload, 3, data)
        /\ pc = "close" =>
              LET sect == table'[Len(table')]
              IN  /\ Len(sect.payload) >= data
                  /\ SubSeq(sect.payload, 4, data) = SubSeq(payload, 4, data)
      ]_vars

\* Two channels with a descriptor each were kept in one section.
C21_Witness ==
    /\ pc = "chan"
    /\ num_channels = 2
    /\ Len(channels[1].descs) >= 1
    /\ Len(channels[2].descs) >= 1
    /\ data = 2 + 2 * (32 + 257)

\* The messages of the queue that forceEnqueue inserted.
ForcedIn(q) == Cardinality({i \in 1..Len(q) : q[i] = "forceEnqueue"})

C23_SectionHeader ==
    [][ pc = "close" =>
            LET sect == table'[Len(table')]
            IN  /\ sect.payload[1] = protocol_version
                /\ sect.payload[2] = num_channels
                /\ SubSeq(sect.payload, 3, data) = SubSeq(payload, 3, data)
      ]_vars

\* Room for the descriptors of the first channel of a section: the payload
\* less the 2 header bytes, the 32 bytes of the channel and the 2 bytes of
\* the global descriptor list length.
FirstRoom == MAX_PSI_LONG_SECTION_PAYLOAD_SIZE - 2 - 32 - 2

\* The bytes of a channel as a section holds it: fixed fields, length field
\* with its 6 reserved bits set, descriptors; the first channel of a section
\* with the leading descriptors that fit, a later one with all of them.
EntryOf(ch, first) ==
    LET emitted == IF first
                   THEN SubSeq(ch.descs, 1, LeadingFit(ch.descs, FirstRoom))
                   ELSE ch.descs
    IN  ChannelFixedBytes(ch, table_id)
        \o UInt16(64512 + TotalSize(emitted))
        \o Flatten(emitted)

\* C24: emission order of serialize. The call starts at channel 0 and global
\* descriptor 0; a section starts with no channel kept; each channel kept is
\* the channel at channel_index, which then advances by one with
\* num_channels, and a channel rolled back or a section closed moves
\* neither; the section emitted holds, in index order and nothing else
\* between offset 2 and its global descriptor list, the num_channels
\* channels below channel_index, then the global descriptors from next_desc
\* on in index order; when serialize returns every channel and every global
\* descriptor was passed, so each went to exactly one section.
C24_EmissionOrder ==
    [][ /\ (pc = "idle" /\ pc' = "loop") =>
              channel_index' = 0 /\ next_desc' = 0
        /\ (pc = "loop" /\ pc' = "chan") =>
              num_channels' = 0 /\ channel_index' = channel_index
                                /\ next_desc' = next_desc
        /\ (pc = "chan" /\ pc' = "chan") =>
              /\ channel_index' = channel_index + 1
              /\ num_channels' = num_channels + 1
              /\ next_desc' = next_desc
              /\ data' > data
              /\ SubSeq(payload', data + 1, data') =
                     EntryOf(channels[channel_index + 1], num_channels = 0)
        /\ (pc = "chan" /\ pc' = "close") =>
              /\ channel_index' = channel_index
              /\ num_channels' = num_channels
              /\ next_desc' = next_desc
              /\ data' = data
        /\ pc = "close" =>
              LET sect   == table'[Len(table')]
                  first  == channel_index - num_channels
                  kept   == Flatten([i \in 1..num_channels |->
                                        EntryOf(channels[first + i], i = 1)])
                  global == SubSeq(descs, next_desc + 1, next_desc')
              IN  /\ first >= 0
                  /\ channel_index' = channel_index
                  /\ num_channels' = num_channels
                  /\ next_desc' >= next_desc
                  /\ data = 2 + Len(kept)
                  /\ SubSeq(sect.payload, 4, data) = SubSeq(kept, 2, Len(kept))
                  /\ SubSeq(sect.payload, data + 3, Len(sect.payload)) = Flatten(global)
        /\ (pc = "loop" /\ pc' = "serialized") =>
              channel_index = Len(channels) /\ next_desc = Len(descs)
      ]_vars

\* Three sections were emitted for two channels and two global descriptors:
\* one channel in each of the first two, a global descriptor in the last.
C24_Witness ==
    /\ pc = "serialized"
    /\ is_valid
    /\ Len(table) = 3
    /\ Len(channels) = 2
    /\ Len(descs) = 2
    /\ Len(table[1].payload) > 34
    /\ Len(table[2].payload) > 34
    /\ Len(table[3].payload) > 4

\* The bytes the channels of a list take in a section.
RECURSIVE ChannelsSize(_)
ChannelsSize(chans) ==
    IF chans = <<>> THEN 0
    ELSE 32 + TotalSize(Head(chans).descs) + ChannelsSize(Tail(chans))

\* C25: buffer bounds. In serialize, at the start of a section and after
\* every channel kept or rolled back, data + remain is the capacity of the
\* payload buffer, remain is not negative, nothing was written beyond the
\* capacity, and every section emitted has a payload of at most
\* MAX_PSI_LONG_SECTION_PAYLOAD_SIZE bytes. In deserialize, whatever the
\* section holds and announces, the channel loop ends at an offset within
\* the payload with the rest of the payload as remain, the channels read
\* take no more bytes than were passed, the global descriptors read take no
\* more than the bytes that are left after their length field, and a payload
\* shorter than 2 bytes is not read at all.
C25_BufferBounds ==
    [][ /\ pc' \in {"loop", "chan", "close"} =>
              /\ data' + remain' = MAX_PSI_LONG_SECTION_PAYLOAD_SIZE
              /\ data' >= 0
              /\ remain' >= 0
              /\ Len(payload') <= MAX_PSI_LONG_SECTION_PAYLOAD_SIZE
        /\ pc = "close" =>
              /\ Len(table'[Len(table')].payload) <= MAX_PSI_LONG_SECTION_PAYLOAD_SIZE
              /\ Len(table'[Len(table')].payload) <= Len(payload')
        /\ (pc = "sections" /\ si < Len(table)) =>
              LET b == SectionAt(table, si).payload
              IN  IF Len(b) < 2
                  THEN /\ pc' = "aborted"
                       /\ protocol_version' = protocol_version
                       /\ channels' = channels
                       /\ descs' = descs
                  ELSE LET loop == ChannelLoop(b, 2, Len(b) - 2, b[2], table_id)
                           read == SubSeq(descs', Len(descs) + 1, Len(descs'))
                       IN  /\ loop.off >= 2
                           /\ loop.rem >= 0
                           /\ loop.off + loop.rem = Len(b)
                           /\ channels' = channels \o loop.chans
                           /\ ChannelsSize(loop.chans) <= loop.off - 2
                           /\ pc' = "sections" =>
                                 /\ loop.rem >= 2
                                 /\ descs' = descs \o read
                                 /\ TotalSize(read) <= loop.rem - 2
                           /\ pc' = "aborted" => descs' = descs
      ]_vars

\* deserialize stopped in a section that announces a channel whose
\* descriptor list is longer than what is left of the payload; the channel
\* was read with the descriptors the payload holds.
C25_Witness ==
    /\ pc = "aborted"
    /\ Len(table) >= 2
    /\ si < Len(table)
    /\ Len(channels) >= 1
    /\ LET b == SectionAt(table, si).payload
       IN  /\ Len(b) >= 34 + 257
           /\ b[2] >= 1
           /\ InfoLength(GetUInt16(b, 32)) > Len(b) - 34
           /\ Len(channels[Len(channels)].descs) >= 1

\* The bytes of descriptor d are somewhere in the bytes b.
Occurs(d, b) ==
    \E o \in 1..(Len(b) - Len(d) + 1) : SubSeq(b, o, o + Len(d) - 1) = d

\* serialize is about to attempt, as the first channel of a section, a
\* channel whose descriptors do not all fit in the section.
LossyAttempt ==
    /\ pc = "chan"
    /\ MoreChannels
    /\ num_channels = 0
    /\ ~FitsWhole(channels[channel_index + 1], remain)

\* C26: a channel that is the first of its section and whose descriptor
\* list does not fit after its fixed fields is kept with the leading
\* descriptors that fit and no other, and serialize goes on with the next
\* channel; the object stays valid and nothing reports the loss; serialize
\* then returns with all channels and global descriptors passed and a
\* valid binary table, in which no section holds any of the descriptors
\* that were left out.
C26_LossyFirstEntry ==
    /\ [][ LossyAttempt =>
             LET ch == channels[channel_index + 1]
                 k  == LeadingFit(ch.descs, remain - 34)
             IN  /\ k < Len(ch.descs)
                 /\ pc' = "chan"
                 /\ num_channels' = 1
                 /\ channel_index' = channel_index + 1
                 /\ data' = data + 32 + TotalSize(SubSeq(ch.descs, 1, k))
                 /\ SubSeq(payload', data + 31, data') =
                        UInt16(64512 + TotalSize(SubSeq(ch.descs, 1, k)))
                        \o Flatten(SubSeq(ch.descs, 1, k))
                 /\ is_valid' = is_valid
                 /\ channels' = channels
                 /\ table' = table
         ]_vars
    /\ [](pc = "serialized" /\ is_valid =>
             /\ BinaryTableIsValid(table)
             /\ channel_index = Len(channels)
             /\ next_desc = Len(descs)
             /\ \A i \in 1..Len(channels) :
                    \A j \in (LeadingFit(channels[i].descs, FirstRoom) + 1)
                             ..Len(channels[i].descs) :
                        \A n \in 1..Len(table) :
                            ~Occurs(channels[i].descs[j], table[n].payload))
    /\ (LossyAttempt ~> (pc = "serialized" /\ is_valid))

\* serialize returned after two sections, each with one channel that lost
\* its last descriptor.
C26_Witness ==
    /\ pc = "serialized"
    /\ is_valid
    /\ Len(channels) = 2
    /\ Len(table) = 2
    /\ \A i \in 1..2 :
          /\ LeadingFit(channels[i].descs, FirstRoom) < Len(channels[i].descs)
          /\ Len(table[i].payload) >= 34 + TotalSize(SubSeq(channels[i].descs, 1,
                                         LeadingFit(channels[i].descs, FirstRoom)))

====
